---- MODULE Spec2Model ----
(***************************************************************************)
(* Model of task_manager.py: the Task record, the Tasks store with its     *)
(* pickle file, and handle_command, one action per command branch.         *)
(*                                                                         *)
(* Values.  Python's None is the empty tuple for the optional fields of a  *)
(* Task (completed, due_date).  A string is a tuple of one-character       *)
(* strings.  A datetime with a calendar meaning (due_date, datetime.min,   *)
(* datetime.max) is the 7-tuple <<year, month, day, hour, minute, second,  *)
(* microsecond>>, compared field by field as Python compares datetimes.    *)
(* A value of datetime.now() is a 1-tuple <<tick>> drawn from Times.       *)
(***************************************************************************)
EXTENDS Integers, Sequences, FiniteSets, TLC

\* tasks, file, op, out: the store object of the running invocation, the
\* file, the last command or call and what it printed or returned.
\* race: the two invocations of the interleaved runs (NoRace elsewhere).
VARIABLES tasks, file, op, out, race

vars == <<tasks, file, op, out, race>>

\* ----------------------------------------------------------------- bounds
MaxTasks == 2

\* ----------------------------------------------------------------- values
None == <<>>

\* datetime.min and datetime.max
datetime_min == <<1, 1, 1, 0, 0, 0, 0>>
datetime_max == <<9999, 12, 31, 23, 59, 59, 999999>>

\* The values datetime.now() returns in the model.
Times == {<<1>>}

\* The --add commands of the model, each with its --due (the three numbers of
\* "MM/DD/YYYY", None when absent) and its --priority (a 1-tuple, None when
\* absent): valid names with and without a due date, 01/01/0001, the
\* undecodable 13/45/2025, and the empty and the all-digit name.
AddArgs ==
  {[name |-> <<"b">>, due |-> None, priority |-> <<3>>],
   [name |-> <<"A", "b">>, due |-> <<1, 1, 1>>, priority |-> <<3>>],
   [name |-> <<"A", "b">>, due |-> <<2, 1, 2025>>, priority |-> <<3>>],
   [name |-> <<"b">>, due |-> <<13, 45, 2025>>, priority |-> None],
   [name |-> <<>>, due |-> None, priority |-> None],
   [name |-> <<"1", "2">>, due |-> <<2, 1, 2025>>, priority |-> <<3>>]}

\* --query values: non-empty lists of keywords.
KeywordArgs == {<<<<"a">>>>, <<<<"x">>, <<"B">>>>}

\* --done and --delete values.
IdArgs == 0..MaxTasks

\* ------------------------------------------------------------------- Task
\* Task.__init__
Task(unique_id, name, priority, due_date, now) ==
  [created |-> now, completed |-> None, deleted |-> FALSE, name |-> name,
   unique_id |-> unique_id, priority |-> priority, due_date |-> due_date]

\* Task.mark_completed, were it to clear a timestamp that is already set.
mark_completed_toggle(t, now) ==
  [t EXCEPT !.completed = IF t.completed = None THEN now ELSE None]

\* Task.mark_completed
mark_completed(t, now) == [t EXCEPT !.completed = now]

\* Task.mark_deleted, were it to flip the flag.
mark_deleted_toggle(t) == [t EXCEPT !.deleted = ~t.deleted]

\* Task.mark_deleted
mark_deleted(t) == [t EXCEPT !.deleted = TRUE]

\* ----------------------------------------------------------------- pickle
\* pickle.dump, were it to write the attributes Task had before `deleted`
\* was added to it.
pickle_dump_no_deleted(ts) ==
  [i \in 1..Len(ts) |->
     <<ts[i].created, ts[i].completed, FALSE, ts[i].name,
       ts[i].unique_id, ts[i].priority, ts[i].due_date>>]

\* pickle.dump of the task list: each Task is written as the values of its
\* instance dictionary, in the order __init__ assigns the attributes.
pickle_dump(ts) ==
  [i \in 1..Len(ts) |->
     <<ts[i].created, ts[i].completed, ts[i].deleted, ts[i].name,
       ts[i].unique_id, ts[i].priority, ts[i].due_date>>]

\* pickle.load: rebuilds each Task from the stored attribute values.
pickle_load(b) ==
  [i \in 1..Len(b) |->
     [created |-> b[i][1], completed |-> b[i][2], deleted |-> b[i][3],
      name |-> b[i][4], unique_id |-> b[i][5], priority |-> b[i][6],
      due_date |-> b[i][7]]]

\* The file .todo.pickle: absent, or present with its content.
NoFile == [exists |-> FALSE, data |-> <<>>]

\* Tasks.pickle_tasks
pickle_tasks(ts) == [exists |-> TRUE, data |-> pickle_dump(ts)]

\* Tasks.load_tasks
load_tasks(f) == IF f.exists THEN pickle_load(f.data) ELSE <<>>

\* ---------------------------------------------------------------- strings
\* str.lower on one character (the letters the model's names use).
lower_char(c) ==
  CASE c = "A" -> "a"
    [] c = "B" -> "b"
    [] OTHER -> c

\* str.lower, were the comparison case-sensitive.
lower_asis(s) == s

\* str.lower
lower(s) == [i \in 1..Len(s) |-> lower_char(s[i])]

\* str.isdigit, were the check for an all-digit name missing.
isdigit_never(s) == FALSE

\* str.isdigit: non-empty and every character a digit.
isdigit(s) ==
  /\ Len(s) > 0
  /\ \A i \in 1..Len(s) :
       s[i] \in {"0", "1", "2", "3", "4", "5", "6", "7", "8", "9"}

\* The operator `in` on two strings: k occurs in s as a substring.
contains(s, k) ==
  \E i \in 0..(Len(s) - Len(k)) : SubSeq(s, i + 1, i + Len(k)) = k

\* -------------------------------------------------------------- datetimes
is_leap(y) == (y % 4 = 0 /\ y % 100 # 0) \/ y % 400 = 0

days_in_month(m, y) ==
  CASE m \in {1, 3, 5, 7, 8, 10, 12} -> 31
    [] m \in {4, 6, 9, 11} -> 30
    [] OTHER -> IF is_leap(y) THEN 29 ELSE 28

\* Whether datetime.strptime(due, "%m/%d/%Y") raises ValueError.
strptime_fails(due) ==
  \/ due[1] < 1 \/ due[1] > 12
  \/ due[3] < 1 \/ due[3] > 9999
  \/ due[2] < 1 \/ due[2] > days_in_month(due[1], due[3])

\* datetime.strptime(due, "%m/%d/%Y") on a string it accepts: midnight of
\* that day.
strptime(due) == <<due[3], due[1], due[2], 0, 0, 0, 0>>

\* datetime < datetime
dt_less(a, b) ==
  \E i \in 1..7 : a[i] < b[i] /\ \A j \in 1..(i - 1) : a[j] = b[j]

\* tuple < tuple for the sort keys (datetime, int)
key_less(k1, k2) ==
  \/ dt_less(k1[1], k2[1])
  \/ k1[1] = k2[1] /\ k1[2] < k2[2]

\* ----------------------------------------------------------------- sorted
\* Where sorted() puts x among the already sorted r: after every element
\* that does not have to follow it (the sort is stable, also in reverse).
insert_sorted(r, x, reverse) ==
  LET stay == {i \in 1..Len(r) :
                 IF reverse THEN ~key_less(r[i].key, x.key)
                            ELSE ~key_less(x.key, r[i].key)}
      c == Cardinality(stay)
  IN SubSeq(r, 1, c) \o <<x>> \o SubSeq(r, c + 1, Len(r))

RECURSIVE sorted_prefix(_, _, _)
sorted_prefix(kv, reverse, n) ==
  IF n = 0 THEN <<>>
  ELSE insert_sorted(sorted_prefix(kv, reverse, n - 1), kv[n], reverse)

\* sorted(ts, key=..., reverse=...), given each task with its key.
sorted(kv, reverse) ==
  LET r == sorted_prefix(kv, reverse, Len(kv))
  IN [i \in 1..Len(r) |-> r[i].val]

\* ------------------------------------------------------------------ Tasks
\* Tasks.add: the list after the append.
add(ts, task) == Append(ts, task)

\* Tasks.delete, were it to stop at the first task with the id.
delete_first_only(ts, unique_id) ==
  LET hits == {i \in 1..Len(ts) : ts[i].unique_id = unique_id}
      f == IF hits = {} THEN 0 ELSE CHOOSE i \in hits : \A j \in hits : i <= j
  IN IF f = 0 THEN ts ELSE SubSeq(ts, 1, f - 1) \o SubSeq(ts, f + 1, Len(ts))

\* Tasks.delete: the list after the removal.
delete(ts, unique_id) == SelectSeq(ts, LAMBDA t : t.unique_id # unique_id)

\* The sort key of Tasks.list
list_key(t) ==
  <<IF t.due_date # None THEN t.due_date ELSE datetime_min, -t.priority>>

\* Tasks.list, were it to keep the completed tasks.
list_with_completed(ts) ==
  LET not_deleted_tasks == SelectSeq(ts, LAMBDA t : ~t.deleted)
  IN sorted([i \in 1..Len(not_deleted_tasks) |->
               [key |-> list_key(not_deleted_tasks[i]),
                val |-> not_deleted_tasks[i]]], TRUE)

\* Tasks.list, were it to keep the soft-deleted tasks.
list_with_deleted(ts) ==
  LET not_completed_tasks == SelectSeq(ts, LAMBDA t : t.completed = None)
  IN sorted([i \in 1..Len(not_completed_tasks) |->
               [key |-> list_key(not_completed_tasks[i]),
                val |-> not_completed_tasks[i]]], TRUE)

\* Tasks.list
list(ts) ==
  LET not_completed_tasks ==
        SelectSeq(ts, LAMBDA t : t.completed = None /\ ~t.deleted)
  IN sorted([i \in 1..Len(not_completed_tasks) |->
               [key |-> list_key(not_completed_tasks[i]),
                val |-> not_completed_tasks[i]]], TRUE)

\* Tasks.query
query(ts, keywords) ==
  LET not_completed_tasks == SelectSeq(ts, LAMBDA t : t.completed = None)
  IN SelectSeq(not_completed_tasks,
               LAMBDA t : \E k \in 1..Len(keywords) :
                             contains(lower(t.name), lower(keywords[k])))

\* The position of the first task with this id, 0 when there is none (the
\* loop of Tasks.done and of Tasks.get_task_by_id).
first_with_id(ts, unique_id) ==
  LET hits == {i \in 1..Len(ts) : ts[i].unique_id = unique_id}
  IN IF hits = {} THEN 0 ELSE CHOOSE i \in hits : \A j \in hits : i <= j

\* Tasks.done, were the loop to go on after the first task with the id.
done_all(ts, unique_id, now) ==
  [i \in 1..Len(ts) |->
     IF ts[i].unique_id = unique_id THEN mark_completed(ts[i], now) ELSE ts[i]]

\* Tasks.done: the list after the call.
done(ts, unique_id, now) ==
  LET i == first_with_id(ts, unique_id)
  IN IF i = 0 THEN ts ELSE [ts EXCEPT ![i] = mark_completed(ts[i], now)]

\* The sort key of Tasks.report, were it to use the key of Tasks.list.
report_key_min(t) ==
  <<IF t.due_date # None THEN t.due_date ELSE datetime_min, -t.priority>>

\* The sort key of Tasks.report
report_key(t) ==
  <<IF t.due_date # None THEN t.due_date ELSE datetime_max, -t.priority>>

\* Tasks.report
report(ts) ==
  sorted([i \in 1..Len(ts) |-> [key |-> report_key(ts[i]), val |-> ts[i]]],
         FALSE)

\* Tasks.get_task_by_id: the position of the task returned, 0 for None.
get_task_by_id(ts, unique_id) == first_with_id(ts, unique_id)

\* --------------------------------------------------------------- commands
\* The id of a new task, were it the number of tasks without the + 1.
next_unique_id_count(ts) == Len(ts)

\* handle_command: the id of the task an --add creates.
next_unique_id(ts) == Len(ts) + 1

\* What a command prints (print_tasks prints one row per task, in the order
\* of the list it is given) or what a store method returns.
Out(msg, id, rows) == [msg |-> msg, id |-> id, rows |-> rows]

\* No interleaved invocations.
NoRace == [pc |-> <<>>, mem |-> <<>>, cmd |-> <<>>, file0 |-> NoFile,
           order |-> <<>>]

Init ==
  /\ tasks = <<>>
  /\ file = NoFile
  /\ op = "init"
  /\ out = Out("", 0, <<>>)
  /\ race = NoRace

\* handle_command, --add
HandleAdd(name, due, priority) ==
  LET ts == load_tasks(file)
  IN /\ op' = "add"
     /\ UNCHANGED race
     /\ IF name = <<>> \/ isdigit(name)
        THEN /\ tasks' = ts
             /\ file' = file
             /\ out' = Out("There was an error in creating your task", 0, <<>>)
        ELSE /\ Len(ts) < MaxTasks
             /\ \E now \in Times :
                  LET due_date == IF due # None /\ ~strptime_fails(due)
                                  THEN strptime(due) ELSE None
                      unique_id == next_unique_id(ts)
                      prio == IF priority # None THEN priority[1] ELSE 1
                  IN /\ tasks' = add(ts, Task(unique_id, name, prio, due_date, now))
                     /\ file' = pickle_tasks(tasks')
                     /\ out' = Out(IF due # None /\ strptime_fails(due)
                                   THEN "Warning: Invalid due date format. Created task"
                                   ELSE "Created task", unique_id, <<>>)

\* handle_command, --list, were it to save the list it has loaded.
HandleList_saves ==
  LET ts == load_tasks(file)
  IN /\ op' = "list"
     /\ UNCHANGED race
     /\ tasks' = ts
     /\ file' = pickle_tasks(ts)
     /\ out' = Out("table", 0, list(ts))

\* handle_command, --list
HandleList ==
  LET ts == load_tasks(file)
  IN /\ op' = "list"
     /\ UNCHANGED race
     /\ tasks' = ts
     /\ file' = file
     /\ out' = Out("table", 0, list(ts))

\* handle_command, --query
HandleQuery(keywords) ==
  LET ts == load_tasks(file)
  IN /\ op' = "query"
     /\ UNCHANGED race
     /\ tasks' = ts
     /\ file' = file
     /\ out' = Out("table", 0, query(ts, keywords))

\* handle_command, --done, were it to save the list also when no task has
\* the id.
HandleDone_saves(id) ==
  LET ts == load_tasks(file)
  IN /\ id # 0
     /\ op' = "done"
     /\ UNCHANGED race
     /\ IF first_with_id(ts, id) # 0
        THEN \E now \in Times :
               /\ tasks' = done(ts, id, now)
               /\ out' = Out("Completed task", id, <<>>)
        ELSE /\ tasks' = ts
             /\ out' = Out("Error: Task not found", id, <<>>)
     /\ file' = pickle_tasks(tasks')

\* handle_command, --done (an id of 0 is falsy and selects no command)
HandleDone(id) ==
  LET ts == load_tasks(file)
  IN /\ id # 0
     /\ op' = "done"
     /\ UNCHANGED race
     /\ IF first_with_id(ts, id) # 0
        THEN \E now \in Times :
               /\ tasks' = done(ts, id, now)
               /\ file' = pickle_tasks(tasks')
               /\ out' = Out("Completed task", id, <<>>)
        ELSE /\ tasks' = ts
             /\ file' = file
             /\ out' = Out("Error: Task not found", id, <<>>)

\* handle_command, --delete, were it to call Tasks.delete.
HandleDelete_hard(id) ==
  LET ts == load_tasks(file)
  IN /\ id # 0
     /\ op' = "delete"
     /\ UNCHANGED race
     /\ tasks' = delete(ts, id)
     /\ file' = pickle_tasks(tasks')
     /\ out' = Out("Deleted task", id, <<>>)

\* handle_command, --delete (an id of 0 is falsy and selects no command)
HandleDelete(id) ==
  LET ts == load_tasks(file)
      i == get_task_by_id(ts, id)
  IN /\ id # 0
     /\ op' = "delete"
     /\ UNCHANGED race
     /\ IF i # 0
        THEN /\ tasks' = [ts EXCEPT ![i] = mark_deleted(ts[i])]
             /\ file' = pickle_tasks(tasks')
             /\ out' = Out("Deleted task", id, <<>>)
        ELSE /\ tasks' = ts
             /\ file' = file
             /\ out' = Out("Error: Task not found", id, <<>>)

\* handle_command, --report: prints tasks_manager.tasks as it is
HandleReport ==
  LET ts == load_tasks(file)
  IN /\ op' = "report"
     /\ UNCHANGED race
     /\ tasks' = ts
     /\ file' = file
     /\ out' = Out("table", 0, ts)

\* handle_command, no command given
HandleNone ==
  LET ts == load_tasks(file)
  IN /\ op' = "none"
     /\ UNCHANGED race
     /\ tasks' = ts
     /\ file' = file
     /\ out' = Out("Error: No valid command provided", 0, <<>>)

\* A call of Tasks.delete on the store object
Delete(id) ==
  /\ op' = "Tasks.delete"
  /\ UNCHANGED race
  /\ tasks' = delete(tasks, id)
  /\ file' = pickle_tasks(tasks')
  /\ out' = Out("return", id, <<>>)

\* A call of Tasks.report on the store object
Report ==
  /\ op' = "Tasks.report"
  /\ UNCHANGED race
  /\ UNCHANGED <<tasks, file>>
  /\ out' = Out("return", 0, report(tasks))

\* A call of Tasks.get_task_by_id on the store object
GetById(id) ==
  /\ op' = "Tasks.get_task_by_id"
  /\ UNCHANGED race
  /\ UNCHANGED <<tasks, file>>
  /\ out' = Out("return", id,
                IF get_task_by_id(tasks, id) = 0 THEN <<>>
                ELSE <<tasks[get_task_by_id(tasks, id)]>>)

\* The commands of the command line
NextCLI ==
  \/ \E a \in AddArgs : HandleAdd(a.name, a.due, a.priority)
  \/ HandleList
  \/ \E keywords \in KeywordArgs : HandleQuery(keywords)
  \/ \E id \in IdArgs : HandleDone(id)
  \/ \E id \in IdArgs : HandleDelete(id)
  \/ HandleReport
  \/ HandleNone

\* The commands and the calls of the store's methods that no command makes
Next ==
  \/ NextCLI
  \/ \E id \in IdArgs : Delete(id)
  \/ Report
  \/ \E id \in IdArgs : GetById(id)

Spec == Init /\ [][Next]_vars

\* Command-line use only
SpecCLI == Init /\ [][NextCLI]_vars

\* ------------------------------------------------------ undecodable file
\* A file that pickle.load cannot decode is modelled as one whose last record
\* holds fewer than the seven attribute values: what an interrupted
\* pickle_tasks (open(..., "wb") empties the file, dump then fills it) leaves.
TruncateArgs == {0, 4}

\* pickle.load raises on this file.
load_fails(f) ==
  f.exists /\ \E i \in DOMAIN f.data : Len(f.data[i]) # 7

\* The file is cut short inside its last record (or to nothing, when it held
\* the empty list); not a step of the program.
Truncate(k) ==
  /\ file.exists
  /\ ~load_fails(file)
  /\ file' = [file EXCEPT !.data =
                IF Len(file.data) = 0 THEN <<<<>>>>
                ELSE [file.data EXCEPT ![Len(file.data)] =
                        SubSeq(file.data[Len(file.data)], 1, k)]]
  /\ op' = "env"
  /\ UNCHANGED race
  /\ UNCHANGED <<tasks, out>>

\* The names of the commands, as op records them.
Commands == {"add", "list", "query", "done", "delete", "report", "none"}

\* handle_command, were it to go on with an empty list after a failed load
\* and save it.
LoadError_resets(cmd) ==
  /\ load_fails(file)
  /\ op' = cmd
  /\ UNCHANGED race
  /\ tasks' = <<>>
  /\ file' = pickle_tasks(<<>>)
  /\ out' = Out("Traceback: pickle.load", 0, <<>>)

\* handle_command on a file that cannot be decoded: Tasks() raises out of
\* pickle.load before any branch is reached, and the process ends.
LoadError(cmd) ==
  /\ load_fails(file)
  /\ op' = cmd
  /\ UNCHANGED race
  /\ tasks' = <<>>
  /\ file' = file
  /\ out' = Out("Traceback: pickle.load", 0, <<>>)

NextCorrupt ==
  \/ ~load_fails(file) /\ NextCLI
  \/ \E cmd \in Commands : LoadError(cmd)
  \/ \E k \in TruncateArgs : Truncate(k)

\* The commands, on a file that may get cut short between two invocations
SpecCorrupt == Init /\ [][NextCorrupt]_vars

\* ------------------------------------------------ interleaved invocations
\* Two invocations of handle_command on the same file.  Each loads the file
\* in Tasks() and, when its command changes the list, writes the whole list
\* in pickle_tasks; a load and a write are each taken as one step.
Procs == {1, 2}

\* The valid --add commands.
ValidAddArgs == {a \in AddArgs : a.name # <<>> /\ ~isdigit(a.name)}

\* The task handle_command builds for an --add on the loaded list ts.
new_task(ts, a, now) ==
  Task(next_unique_id(ts), a.name,
       IF a.priority # None THEN a.priority[1] ELSE 1,
       IF a.due # None /\ ~strptime_fails(a.due) THEN strptime(a.due) ELSE None,
       now)

\* The commands of the interleaved invocations: an --add, --done 1, --delete 1.
RaceCmds ==
  {[kind |-> "add", a |-> a, id |-> 0] : a \in ValidAddArgs}
    \cup {[kind |-> k, a |-> None, id |-> 1] : k \in {"done", "delete"}}

\* Whether the command, run on the loaded list ts, reaches pickle_tasks.
writes(c, ts) == c.kind = "add" \/ first_with_id(ts, c.id) # 0

\* The list the command leaves in memory when run on the loaded list ts.
run_command(c, ts, now) ==
  CASE c.kind = "add" -> add(ts, new_task(ts, c.a, now))
    [] c.kind = "done" -> done(ts, c.id, now)
    [] OTHER ->
         IF get_task_by_id(ts, c.id) = 0 THEN ts
         ELSE [ts EXCEPT ![get_task_by_id(ts, c.id)] =
                           mark_deleted(ts[get_task_by_id(ts, c.id)])]

\* The files the invocations may find: none, or one holding one task.
RaceFiles ==
  {NoFile} \cup
    {pickle_tasks(run_command([kind |-> "add", a |-> a, id |-> 0], <<>>, now)) :
       a \in ValidAddArgs, now \in Times}

InitRace ==
  /\ tasks = <<>>
  /\ op = "init"
  /\ out = Out("", 0, <<>>)
  /\ file \in RaceFiles
  /\ \E cmd \in [Procs -> RaceCmds] :
       race = [pc |-> [p \in Procs |-> "start"],
               mem |-> [p \in Procs |-> <<>>],
               cmd |-> cmd,
               file0 |-> file,
               order |-> <<>>]

\* Tasks() of invocation p: the load
RaceLoad(p) ==
  /\ race.pc[p] = "start"
  /\ race' = [race EXCEPT !.pc[p] = "loaded",
                          !.mem[p] = load_tasks(file),
                          !.order = Append(@, <<"load", p>>)]
  /\ UNCHANGED <<tasks, file, op, out>>

\* The branch of invocation p, were it to load the file again before it
\* changes the list.
RaceRun_reloads(p) ==
  /\ race.pc[p] = "loaded"
  /\ race.cmd[p].kind = "add" => Len(load_tasks(file)) < MaxTasks
  /\ \E now \in Times :
       LET ts == run_command(race.cmd[p], load_tasks(file), now)
       IN IF writes(race.cmd[p], load_tasks(file))
          THEN /\ file' = pickle_tasks(ts)
               /\ race' = [race EXCEPT !.pc[p] = "done", !.mem[p] = ts,
                                       !.order = Append(@, <<"write", p>>)]
          ELSE /\ file' = file
               /\ race' = [race EXCEPT !.pc[p] = "done"]
  /\ UNCHANGED <<tasks, op, out>>

\* The branch of invocation p on the list it has loaded: the change and, with
\* it, the write of the whole list
RaceRun(p) ==
  /\ race.pc[p] = "loaded"
  /\ race.cmd[p].kind = "add" => Len(race.mem[p]) < MaxTasks
  /\ \E now \in Times :
       LET ts == run_command(race.cmd[p], race.mem[p], now)
       IN IF writes(race.cmd[p], race.mem[p])
          THEN /\ file' = pickle_tasks(ts)
               /\ race' = [race EXCEPT !.pc[p] = "done", !.mem[p] = ts,
                                       !.order = Append(@, <<"write", p>>)]
          ELSE /\ file' = file
               /\ race' = [race EXCEPT !.pc[p] = "done"]
  /\ UNCHANGED <<tasks, op, out>>

NextRace ==
  \/ \E p \in Procs : RaceLoad(p)
  \/ \E p \in Procs : RaceRun(p)

\* Two interleaved invocations
SpecRace == InitRace /\ [][NextRace]_vars

\* ================================================================= claims
\* How often the record v occurs in the sequence s.
Count(s, v) == Cardinality({i \in DOMAIN s : s[i] = v})

\* The two sequences hold the same records, each as often.
SameRecords(r, s) ==
  /\ Len(r) = Len(s)
  /\ \A i \in DOMAIN s : Count(r, s[i]) = Count(s, s[i])

\* Where the record at position i of tasks is after the step: the same
\* position, except that Tasks.delete closes the gaps it leaves; 0 when the
\* step removed the record.
PosAfter(i) ==
  IF op' = "Tasks.delete"
  THEN IF tasks[i].unique_id = out'.id THEN 0
       ELSE Cardinality({k \in 1..i : tasks[k].unique_id # out'.id})
  ELSE i

\* C1 -- No two tasks of the store have the same id (an id is never given to
\* a second task, also not after a deletion).
C1_UniqueIds ==
  \A i, j \in DOMAIN tasks : i # j => tasks[i].unique_id # tasks[j].unique_id

\* C2 -- An add gives the new task the id (number of tasks before the add)
\* + 1 and appends it at the end of the sequence, the tasks before it as
\* they were.
C2_AddAssignsCountPlusOne ==
  [][(op' = "add" /\ out'.msg # "There was an error in creating your task") =>
       /\ Len(tasks') = Len(tasks) + 1
       /\ SubSeq(tasks', 1, Len(tasks)) = tasks
       /\ tasks'[Len(tasks')].unique_id = Len(tasks) + 1
       /\ out'.id = Len(tasks) + 1]_vars

C2_Witness ==
  op = "add" /\ out.id = 2 /\ Len(tasks) = 2 /\ tasks[2].unique_id = 2

\* C3 -- After every operation, loading the file gives the task sequence in
\* memory: same tasks, same field values, same order.
C3_FileMirrorsMemory == load_tasks(file) = tasks

C3_Witness ==
  /\ file.exists
  /\ Len(tasks) = 2
  /\ tasks[1].completed # None
  /\ tasks[2].deleted
  /\ tasks[2].due_date # None

\* C4 -- A task whose completed_at is set keeps it set in every later state
\* in which the record is still in the store, in memory and in the file.
C4_CompletedStays ==
  [][\A i \in DOMAIN tasks :
       (tasks[i].completed # None /\ PosAfter(i) # 0) =>
         /\ PosAfter(i) \in DOMAIN tasks'
         /\ tasks'[PosAfter(i)].completed # None
         /\ load_tasks(file')[PosAfter(i)].completed # None]_vars

C4_Witness ==
  /\ op = "done"
  /\ out.msg = "Completed task"
  /\ out.id = 1
  /\ Len(tasks) = 2
  /\ tasks[1].completed # None
  /\ tasks[1].deleted
  /\ tasks[2].completed = None

\* C5 -- The delete command on an existing id sets the task's deleted flag
\* and keeps the record, so the number of tasks is unchanged; a deleted flag
\* that is true stays true while the record exists.
C5_SoftDelete ==
  [][/\ (op' = "delete" /\ out'.msg = "Deleted task") =>
          /\ Len(tasks') = Len(tasks)
          /\ \E i \in DOMAIN tasks :
               tasks[i].unique_id = out'.id /\ tasks'[i].deleted
     /\ \A i \in DOMAIN tasks :
          (tasks[i].deleted /\ PosAfter(i) # 0) =>
            /\ PosAfter(i) \in DOMAIN tasks'
            /\ tasks'[PosAfter(i)].deleted
            /\ load_tasks(file')[PosAfter(i)].deleted]_vars

C5_Witness ==
  /\ op = "delete"
  /\ out.msg = "Deleted task"
  /\ out.id = 2
  /\ Len(tasks) = 2
  /\ tasks[2].deleted
  /\ ~tasks[1].deleted

\* C6 -- ListActive returns exactly the tasks that are neither completed nor
\* soft-deleted, each once.
ActiveOnly(r) ==
  /\ \A i \in DOMAIN r : r[i].completed = None /\ ~r[i].deleted
  /\ \A i \in DOMAIN r : Count(tasks, r[i]) > 0
  /\ \A i \in DOMAIN tasks :
       Count(r, tasks[i]) =
         IF tasks[i].completed = None /\ ~tasks[i].deleted
         THEN Count(tasks, tasks[i]) ELSE 0

C6_ListActiveExact ==
  /\ ActiveOnly(list(tasks))
  /\ op = "list" => ActiveOnly(out.rows)

C6_Witness ==
  /\ op = "list"
  /\ Len(tasks) = 2
  /\ Len(out.rows) = 1
  /\ \E i \in DOMAIN tasks : tasks[i].deleted /\ tasks[i].completed = None

\* C7 -- Query returns exactly the incomplete tasks whose name contains a
\* keyword, letter case ignored, in the store's order; soft-deleted incomplete
\* tasks included.
SameLetter(a, b) ==
  a = b \/ {a, b} = {"a", "A"} \/ {a, b} = {"b", "B"}

NameHasKeyword(name, kw) ==
  \E off \in 0..(Len(name) - Len(kw)) :
    \A q \in 1..Len(kw) : SameLetter(name[off + q], kw[q])

QueryHits(keywords) ==
  {i \in DOMAIN tasks :
     /\ tasks[i].completed = None
     /\ \E k \in DOMAIN keywords : NameHasKeyword(tasks[i].name, keywords[k])}

QueryExact(r, keywords) ==
  /\ Len(r) = Cardinality(QueryHits(keywords))
  /\ \A i \in QueryHits(keywords) :
       r[Cardinality({h \in QueryHits(keywords) : h <= i})] = tasks[i]

C7_QueryExact ==
  /\ \A keywords \in KeywordArgs : QueryExact(query(tasks, keywords), keywords)
  /\ op = "query" => \E keywords \in KeywordArgs : QueryExact(out.rows, keywords)

C7_Witness ==
  /\ op = "query"
  /\ Len(tasks) = 2
  /\ Len(out.rows) = 1
  /\ out.rows[1].deleted
  /\ out.rows[1].name = <<"b">>
  /\ Len(list(tasks)) = 0

\* C8 -- In ListActive, of two tasks with different due dates the later one
\* comes first, and every task without a due date comes after every task with
\* one.
C8_ListDateOrder ==
  op = "list" =>
    \A i, j \in DOMAIN out.rows :
      i < j =>
        /\ ~(out.rows[i].due_date = None /\ out.rows[j].due_date # None)
        /\ (/\ out.rows[i].due_date # None
            /\ out.rows[j].due_date # None
            /\ out.rows[i].due_date # out.rows[j].due_date)
             => dt_less(out.rows[j].due_date, out.rows[i].due_date)

\* C9 -- In ListActive, of two tasks with equal due dates (or both without)
\* the one with the larger priority number comes first.
C9_ListPriorityOrder ==
  op = "list" =>
    \A i, j \in DOMAIN out.rows :
      (i < j /\ out.rows[i].due_date = out.rows[j].due_date)
        => out.rows[i].priority >= out.rows[j].priority

\* C10 -- Report() returns every task, each once, ascending by due date,
\* tasks without a due date last, and of equal due dates the larger priority
\* number first.
ReportOrder(r) ==
  /\ SameRecords(r, tasks)
  /\ \A i, j \in DOMAIN r :
       i < j =>
         /\ ~(r[i].due_date = None /\ r[j].due_date # None)
         /\ (r[i].due_date # None /\ r[j].due_date # None)
              => ~dt_less(r[j].due_date, r[i].due_date)
         /\ r[i].due_date = r[j].due_date => r[i].priority >= r[j].priority

C10_ReportExact ==
  /\ ReportOrder(report(tasks))
  /\ op = "Tasks.report" => ReportOrder(out.rows)

C10_Witness ==
  /\ op = "Tasks.report"
  /\ Len(tasks) = 2
  /\ out.rows[1] = tasks[2]
  /\ out.rows[2] = tasks[1]
  /\ tasks[1] # tasks[2]
  /\ tasks[1].due_date = tasks[2].due_date
  /\ tasks[2].deleted
  /\ tasks[2].completed # None

\* C11 -- MarkCompleted with an id that no task has reports not found and
\* changes nothing: not a task, not the sequence, not the file.
C11_DoneUnknownId ==
  [][(op' = "done" /\ ~\E i \in DOMAIN tasks : tasks[i].unique_id = out'.id) =>
       /\ out'.msg = "Error: Task not found"
       /\ tasks' = tasks
       /\ file' = file]_vars

C11_Witness ==
  /\ op = "done"
  /\ out.msg = "Error: Task not found"
  /\ out.id = 1
  /\ Len(tasks) = 1
  /\ tasks[1].unique_id = 2
  /\ tasks[1].completed = None

\* C12 -- After MarkCompleted has succeeded the task has a completion
\* timestamp, and it is not in the result of ListActive, then and in every
\* later state, also after a reload of the file.
NotListed(ts, rows) ==
  \A i \in DOMAIN ts :
    ts[i].completed # None => \A k \in DOMAIN rows : rows[k] # ts[i]

C12_CompletedNeverListed ==
  /\ [](/\ NotListed(tasks, list(tasks))
        /\ NotListed(load_tasks(file), list(load_tasks(file)))
        /\ op = "list" => NotListed(tasks, out.rows))
  /\ [][/\ (op' = "done" /\ out'.msg = "Completed task") =>
             \E i \in DOMAIN tasks :
               tasks[i].unique_id = out'.id /\ tasks'[i].completed # None
        /\ \A i \in DOMAIN tasks :
             (tasks[i].completed # None /\ PosAfter(i) # 0) =>
               /\ tasks'[PosAfter(i)].completed # None
               /\ load_tasks(file')[PosAfter(i)].completed # None]_vars

C12_Witness ==
  /\ op = "list"
  /\ Len(tasks) = 2
  /\ tasks[1].completed # None
  /\ ~tasks[1].deleted
  /\ out.rows = <<tasks[2]>>

\* C13 -- Tasks.delete leaves exactly the tasks with another id, as they were
\* and in their order, and saves that list; with an id no task has, it changes
\* no task and signals nothing.
Kept(id) == {i \in DOMAIN tasks : tasks[i].unique_id # id}

C13_HardDelete ==
  [][op' = "Tasks.delete" =>
       /\ Len(tasks') = Cardinality(Kept(out'.id))
       /\ \A i \in Kept(out'.id) :
            tasks'[Cardinality({h \in Kept(out'.id) : h <= i})] = tasks[i]
       /\ file'.exists
       /\ load_tasks(file') = tasks'
       /\ out'.msg = "return"
       /\ Kept(out'.id) = DOMAIN tasks => tasks' = tasks]_vars

C13_Witness ==
  /\ op = "Tasks.delete"
  /\ out.id = 1
  /\ Len(tasks) = 1
  /\ tasks[1].unique_id = 2
  /\ tasks[1].deleted

\* C14 -- An add whose name is empty or all digits is rejected and changes
\* nothing: no task appended, no task modified, the file not written.
BadName(name) ==
  \/ Len(name) = 0
  \/ \A i \in DOMAIN name :
       name[i] \in {"0", "1", "2", "3", "4", "5", "6", "7", "8", "9"}

C14_BadNameRejected ==
  [][\A a \in AddArgs :
       (BadName(a.name) /\ HandleAdd(a.name, a.due, a.priority)) =>
         /\ out'.msg = "There was an error in creating your task"
         /\ tasks' = tasks
         /\ file' = file]_vars

C14_Witness ==
  /\ op = "add"
  /\ out.msg = "There was an error in creating your task"
  /\ Len(tasks) = 1
  /\ file.exists

\* C17 -- The report command lists the tasks in the order Tasks.report
\* returns them.
C17_ReportCommandSorted == op = "report" => out.rows = report(tasks)

\* C18 -- With the commands alone, starting without a file, the task at
\* position k has id k and the number of stored tasks never decreases; so
\* the ids are pairwise distinct.
C18_IdIsPosition ==
  /\ [](/\ \A k \in DOMAIN tasks : tasks[k].unique_id = k
        /\ \A k \in DOMAIN load_tasks(file) : load_tasks(file)[k].unique_id = k
        /\ \A i, j \in DOMAIN tasks :
             i # j => tasks[i].unique_id # tasks[j].unique_id)
  /\ [][/\ Len(tasks') >= Len(tasks)
        /\ Len(load_tasks(file')) >= Len(load_tasks(file))]_vars

C18_Witness ==
  /\ op = "add"
  /\ Len(tasks) = 2
  /\ tasks[1].deleted
  /\ tasks[1].completed # None
  /\ tasks[2].unique_id = 2

\* C19 -- ListActive, Query, Report and GetById leave the store as it is:
\* the sequence in memory and the file, which they do not create when it is
\* missing.
C19_ReadOnly ==
  [][op' \in {"list", "query", "report", "Tasks.report", "Tasks.get_task_by_id"} =>
       /\ tasks' = tasks
       /\ file' = file]_vars

C19_Witness ==
  /\ op = "list"
  /\ ~file.exists
  /\ tasks = <<>>
  /\ out.rows = <<>>

\* C20 -- A MarkCompleted that finds the id changes only completed, and only
\* of the first task with that id; it succeeds whenever a task has the id,
\* also a completed or soft-deleted one.
C20_DoneFrame ==
  [][(op' = "done" /\ \E i \in DOMAIN tasks : tasks[i].unique_id = out'.id) =>
       LET f == CHOOSE i \in DOMAIN tasks :
                  /\ tasks[i].unique_id = out'.id
                  /\ \A j \in 1..(i - 1) : tasks[j].unique_id # out'.id
       IN /\ out'.msg = "Completed task"
          /\ Len(tasks') = Len(tasks)
          /\ \A j \in DOMAIN tasks : j # f => tasks'[j] = tasks[j]
          /\ tasks'[f].completed # None
          /\ tasks'[f] = [tasks[f] EXCEPT !.completed = tasks'[f].completed]]_vars

C20_Witness ==
  /\ op = "done"
  /\ out.msg = "Completed task"
  /\ Len(tasks) = 2
  /\ tasks[1].unique_id = tasks[2].unique_id
  /\ tasks[1].completed # None
  /\ tasks[1].deleted
  /\ tasks[2].completed = None

\* C15 -- When the file exists and cannot be decoded, every command fails
\* at the load and the file is afterwards what it was before.
C15_CorruptFileKept ==
  [][load_fails(file) =>
       /\ op' \in Commands
       /\ out'.msg = "Traceback: pickle.load"
       /\ file' = file]_vars

C15_Witness ==
  /\ load_fails(file)
  /\ Len(file.data) = 2
  /\ Len(file.data[2]) = 4
  /\ op = "add"
  /\ out.msg = "Traceback: pickle.load"

\* C16 -- When two interleaved invocations have each loaded the file once
\* and written the whole list once, the file holds the list of the one that
\* wrote last; and when that one had loaded before the other wrote, the file
\* is what the last writer alone makes of the file they started from: the
\* other's change is lost.
EventAt(e) == CHOOSE i \in DOMAIN race.order : race.order[i] = e

BothWrote ==
  /\ \A p \in Procs : race.pc[p] = "done"
  /\ \A p \in Procs : \E i \in DOMAIN race.order : race.order[i] = <<"write", p>>

C16_LastWriterWins ==
  BothWrote =>
    LET last == race.order[Len(race.order)][2]
        other == CHOOSE p \in Procs : p # last
    IN /\ race.order[Len(race.order)][1] = "write"
       /\ load_tasks(file) = race.mem[last]
       /\ EventAt(<<"load", last>>) < EventAt(<<"write", other>>) =>
            \E now \in Times :
              load_tasks(file) =
                run_command(race.cmd[last], load_tasks(race.file0), now)

C16_Witness ==
  /\ BothWrote
  /\ race.order = <<<<"load", 1>>, <<"load", 2>>, <<"write", 1>>, <<"write", 2>>>>
  /\ race.cmd[1].kind = "add"
  /\ race.cmd[2].kind = "add"
  /\ Len(load_tasks(race.file0)) = 1
  /\ Len(load_tasks(file)) = 2
  /\ load_tasks(file) # race.mem[1]

====
